---- MODULE Spec2Model ----
(***************************************************************************)
(* Vehicle tracking, speed estimation and crossing count of                *)
(* backend/core/speed_estimator.py and backend/core/video_processor.py,    *)
(* driven by the frame loop of backend/main.py (websocket_endpoint), and   *)
(* the colour classification of backend/core/color_detector.py.            *)
(*                                                                         *)
(* A Python dict is a sequence of [k, v] entries in insertion order, which *)
(* is the order the code iterates it in.  A detection is the record        *)
(* [center |-> <<x, y>>]; a history entry is the detection with its        *)
(* frame_number.  An Optional value is None or Some(x).                   *)
(***************************************************************************)
EXTENDS Integers, Sequences, FiniteSets, TLC

VARIABLES
    tracked_vehicles,    \* SpeedEstimator.tracked_vehicles: dict id -> history
    vehicle_id_counter,  \* SpeedEstimator.vehicle_id_counter
    roi_y,               \* SpeedEstimator.roi_y
    total_vehicle_count, \* VideoProcessor.total_vehicle_count
    counted_vehicles,    \* VideoProcessor.counted_vehicles
    frame_count,         \* websocket_endpoint's frame_count
    ret,                 \* the last call: its arguments, locals and result
    previous_total_count,\* the total the process_frame call before it returned
    issued,              \* ids given to new tracks since the last reset, in order
    increments,          \* ids the total was incremented for since VideoProcessor.reset
    steps,               \* number of calls made so far
    streams              \* concurrent connections: their locals, who made tracks

vars == <<tracked_vehicles, vehicle_id_counter, roi_y, total_vehicle_count,
          counted_vehicles, frame_count, ret, previous_total_count, issued,
          increments, steps, streams>>

\* Optional[T]: Python's None, or a value x as Some(x) with Value(Some(x)) = x
None == <<>>

Some(x) == <<x>>

Value(o) == o[1]

----------------------------------------------------------------------------
(* Bounds of the model and the inputs the calls are drawn from.            *)

MaxSteps == 3

\* Centres the detector reports.  P1-P2 and P2-P3 are 40 apart, P2-P4 30,
\* P1-P4 and P3-P4 exactly 50, P1-P3 80; P1 lies above the default ROI line.
P1 == <<100, 370>>
P2 == <<100, 410>>
P3 == <<100, 450>>
P4 == <<130, 410>>
Centers == {P1, P2, P3, P4}

Det(c) == [center |-> c]

\* Detection lists of one frame: none, one vehicle, or two vehicles.
DetectionLists ==
    {<<>>} \cup {<<Det(c)>> : c \in Centers}
           \cup {<<Det(P1), Det(P3)>>, <<Det(P2), Det(P1)>>, <<Det(P2), Det(P2)>>}

\* The "frames" value of a skip command; 0 is no skip.
FrameSkips == {0, 29, -2}

\* The roi_y of a connection's configuration; None is no roi_y given.
RoiPositions == {None, Some(410)}

----------------------------------------------------------------------------
(* Constructor arguments and literals of the code.                         *)

pixels_per_meter == 8
fps == 30
default_roi_y == 400
tracking_threshold == 50
stale_frames == 30
speed_window == 10
save_to_db == TRUE
Inf == -1

----------------------------------------------------------------------------
(* Python dict: entries [k, v] in insertion order.                         *)

DictKeys(d) == {d[i].k : i \in 1..Len(d)}

DictHas(d, key) == \E i \in 1..Len(d) : d[i].k = key

DictIndex(d, key) == CHOOSE i \in 1..Len(d) : d[i].k = key

DictGet(d, key, default) ==
    IF DictHas(d, key) THEN d[DictIndex(d, key)].v ELSE default

DictSet(d, key, value) ==
    IF DictHas(d, key)
    THEN [d EXCEPT ![DictIndex(d, key)] = [k |-> key, v |-> value]]
    ELSE Append(d, [k |-> key, v |-> value])

DictDel(d, key) == SelectSeq(d, LAMBDA e : e.k # key)

Last(s) == s[Len(s)]

Range(s) == {s[i] : i \in 1..Len(s)}

----------------------------------------------------------------------------
(* SpeedEstimator.match_detection                                          *)

\* The square of the distance np.sqrt computes: the comparisons of sqrt
\* values of integers agree with the comparisons of the integers.
distance2(center, last_center) ==
    (center[1] - last_center[1]) * (center[1] - last_center[1])
  + (center[2] - last_center[2]) * (center[2] - last_center[2])

closer_mut(distance, min_distance) ==
    min_distance = Inf \/ distance <= min_distance

\* distance < min_distance, with min_distance starting at infinity
closer(distance, min_distance) ==
    min_distance = Inf \/ distance < min_distance

within_threshold_mut(distance) ==
    distance <= tracking_threshold * tracking_threshold

\* distance < self.tracking_threshold
within_threshold(distance) ==
    distance < tracking_threshold * tracking_threshold

RECURSIVE match_detection_loop(_, _, _, _, _)
match_detection_loop(tracked, center, i, min_distance, matched_id) ==
    IF i > Len(tracked) THEN matched_id
    ELSE LET history == tracked[i].v IN
         IF Len(history) = 0
         THEN match_detection_loop(tracked, center, i + 1, min_distance, matched_id)
         ELSE LET distance == distance2(center, Last(history).center) IN
              IF closer(distance, min_distance) /\ within_threshold(distance)
              THEN match_detection_loop(tracked, center, i + 1, distance, Some(tracked[i].k))
              ELSE match_detection_loop(tracked, center, i + 1, min_distance, matched_id)

match_detection(tracked, detection) ==
    match_detection_loop(tracked, detection.center, 1, Inf, None)

----------------------------------------------------------------------------
(* SpeedEstimator.update_tracking                                          *)

detection_with_frame(detection, frame_number) ==
    [center |-> detection.center, frame_number |-> frame_number]

new_vehicle_id_mut(counter) == counter + 1

\* vehicle_id = self.vehicle_id_counter
new_vehicle_id(counter) == counter

next_vehicle_id_counter_mut(counter) == counter

\* self.vehicle_id_counter += 1
next_vehicle_id_counter(counter) == counter + 1

history_append_mut(tracked, vehicle_id, entry) ==
    DictSet(tracked, vehicle_id, <<entry>>)

\* self.tracked_vehicles[vehicle_id].append(detection_with_frame), on a
\* defaultdict(list)
history_append(tracked, vehicle_id, entry) ==
    DictSet(tracked, vehicle_id, Append(DictGet(tracked, vehicle_id, <<>>), entry))

is_stale_mut(frame_number, last_frame) == frame_number - last_frame >= stale_frames

\* frame_number - last_frame > 30
is_stale(frame_number, last_frame) == frame_number - last_frame > stale_frames

\* One iteration of the loop over the detections, once the detection's
\* vehicle_id is known: the detection joins the history of vehicle_id and
\* becomes its entry of current_vehicles.  matched is what match_detection
\* returned, counter the counter after the iteration; log keeps what the
\* iteration did.
add_detection(st, detection, frame_number, matched, vehicle_id, counter, tracked) ==
    [tracked_vehicles |-> tracked,
     vehicle_id_counter |-> counter,
     current_vehicles |-> DictSet(st.current_vehicles, vehicle_id, detection),
     matched_ids |-> st.matched_ids \cup {vehicle_id},
     log |-> Append(st.log,
                [detection |-> detection,
                 matched |-> matched,
                 vehicle_id |-> vehicle_id,
                 counter_before |-> st.vehicle_id_counter,
                 counter_after |-> counter,
                 had_track |-> DictHas(st.tracked_vehicles, vehicle_id),
                 history_before |-> DictGet(st.tracked_vehicles, vehicle_id, <<>>),
                 history_after |-> DictGet(tracked, vehicle_id, <<>>),
                 tracks_before |-> Len(st.tracked_vehicles),
                 tracks_after |-> Len(tracked)])]

\* The iteration for a detection that matched the track vehicle_id.
extend_vehicle(st, detection, frame_number, matched, vehicle_id) ==
    add_detection(st, detection, frame_number, matched, vehicle_id,
                  st.vehicle_id_counter,
                  history_append(st.tracked_vehicles, vehicle_id,
                                 detection_with_frame(detection, frame_number)))

\* The iteration for a detection that matched no track ("New vehicle").
new_vehicle(st, detection, frame_number, vehicle_id) ==
    add_detection(st, detection, frame_number, None, vehicle_id,
                  next_vehicle_id_counter(st.vehicle_id_counter),
                  history_append(st.tracked_vehicles, vehicle_id,
                                 detection_with_frame(detection, frame_number)))

track_detection(st, detection, frame_number, matched) ==
    IF matched = None
    THEN new_vehicle(st, detection, frame_number, new_vehicle_id(st.vehicle_id_counter))
    ELSE extend_vehicle(st, detection, frame_number, matched, Value(matched))

\* The loop over the detections.  st holds self.tracked_vehicles,
\* self.vehicle_id_counter and the locals current_vehicles and matched_ids.
RECURSIVE update_tracking_loop(_, _, _, _)
update_tracking_loop(st, detections, i, frame_number) ==
    IF i > Len(detections) THEN st
    ELSE update_tracking_loop(
             track_detection(st, detections[i], frame_number,
                             match_detection(st.tracked_vehicles, detections[i])),
             detections, i + 1, frame_number)

\* vehicles_to_remove: the ids of the tracks "not seen for 30 frames"
vehicles_to_remove(tracked, frame_number) ==
    SelectSeq(tracked, LAMBDA e :
        Len(e.v) > 0 /\ is_stale(frame_number, Last(e.v).frame_number))

RECURSIVE remove_all(_, _, _)
remove_all(tracked, to_remove, i) ==
    IF i > Len(to_remove) THEN tracked
    ELSE remove_all(DictDel(tracked, to_remove[i].k), to_remove, i + 1)

\* The removal of the stale tracks and the value returned.
remove_stale(st, to_remove) ==
    [tracked_vehicles |-> remove_all(st.tracked_vehicles, to_remove, 1),
     vehicle_id_counter |-> st.vehicle_id_counter,
     current_vehicles |-> st.current_vehicles,
     matched_ids |-> st.matched_ids,
     removed |-> {to_remove[i].k : i \in 1..Len(to_remove)},
     log |-> st.log]

after_matching_mut(st, frame_number) ==
    IF st.log = <<>> THEN remove_stale(st, <<>>)
    ELSE remove_stale(st, vehicles_to_remove(st.tracked_vehicles, frame_number))

\* The sweep over the whole store that follows the loop over the
\* detections, whatever the detections were.
after_matching(st, frame_number) ==
    remove_stale(st, vehicles_to_remove(st.tracked_vehicles, frame_number))

update_tracking(tracked, counter, detections, frame_number) ==
    after_matching(
        update_tracking_loop(
            [tracked_vehicles |-> tracked, vehicle_id_counter |-> counter,
             current_vehicles |-> <<>>, matched_ids |-> {}, log |-> <<>>],
            detections, 1, frame_number),
        frame_number)

----------------------------------------------------------------------------
(* SpeedEstimator.estimate_speed, get_direction, is_in_roi                 *)

\* The largest r in lo..hi with r * r <= n.
RECURSIVE isqrt_search(_, _, _)
isqrt_search(n, lo, hi) ==
    IF lo >= hi THEN lo
    ELSE LET mid == (lo + hi + 1) \div 2 IN
         IF mid * mid <= n THEN isqrt_search(n, mid, hi)
                           ELSE isqrt_search(n, lo, mid - 1)

\* np.sqrt, exact for the distances of Centers, which are whole pixels.
sqrt(n) == isqrt_search(n, 0, n)

\* round(num / den, 0) for den > 0: to the nearest, ties to even.
round_half_even(num, den) ==
    LET q == num \div den
        r == num - q * den
    IN IF 2 * r < den THEN q
       ELSE IF 2 * r > den THEN q + 1
       ELSE IF q % 2 = 0 THEN q ELSE q + 1

recent_history_mut(history) == history

\* history[-10:]
recent_history(history) ==
    IF Len(history) > speed_window
    THEN SubSeq(history, Len(history) - speed_window + 1, Len(history))
    ELSE history

has_enough_history_mut(history) == Len(history) >= speed_window - 1

\* not (len(history) < 10)
has_enough_history(history) == Len(history) >= speed_window

\* What Python raises for a division by zero.
ZeroDivisionError == <<"raise", "ZeroDivisionError">>

frame_diff_mut(recent) == Len(recent)

\* recent[-1]['frame_number'] - recent[0]['frame_number']
frame_diff(recent) == Last(recent).frame_number - recent[1].frame_number

is_zero_time_mut(frames) == FALSE

\* time_seconds == 0, where time_seconds = frame_diff / fps
is_zero_time(frames) == frames = 0

\* (pixel_distance / pixels_per_meter) / (frames / fps) * 3.6, rounded to 2
\* decimals and held in hundredths of a km/h; the division raises when the
\* time is zero.
speed_kmh(pixel_distance, frames) ==
    LET num == pixel_distance * fps * 36 * 100
        den == pixels_per_meter * 10 * frames
    IN IF den = 0 THEN ZeroDivisionError
       ELSE IF den > 0 THEN Some(round_half_even(num, den))
       ELSE Some(0 - round_half_even(num, 0 - den))

\* The speed in hundredths of a km/h, or None.
estimate_speed(tracked, vehicle_id) ==
    LET history == DictGet(tracked, vehicle_id, <<>>) IN
    IF ~has_enough_history(history) THEN None
    ELSE LET recent == recent_history(history)
             first_center == recent[1].center
             last_center == Last(recent).center
             pixel_distance == sqrt(distance2(last_center, first_center))
         IN IF is_zero_time(frame_diff(recent)) THEN None
            ELSE speed_kmh(pixel_distance, frame_diff(recent))

Abs(x) == IF x < 0 THEN 0 - x ELSE x

direction_origin_mut(history) == recent_history(history)[1]

\* first_detection = history[0]
direction_origin(history) == history[1]

is_vertical_mut(dx, dy) == Abs(dy) >= Abs(dx)

\* abs(dy) > abs(dx)
is_vertical(dx, dy) == Abs(dy) > Abs(dx)

get_direction(tracked, vehicle_id, current_detection) ==
    LET history == DictGet(tracked, vehicle_id, <<>>) IN
    IF Len(history) < 2 THEN None
    ELSE LET first_center == direction_origin(history).center
             current_center == current_detection.center
             dx == current_center[1] - first_center[1]
             dy == current_center[2] - first_center[2]
         IN IF is_vertical(dx, dy)
            THEN (IF dy > 0 THEN Some("down") ELSE Some("up"))
            ELSE (IF dx > 0 THEN Some("right") ELSE Some("left"))

is_in_roi_mut(roi, detection) == detection.center[2] >= roi

\* center_y > self.roi_y
is_in_roi(roi, detection) == detection.center[2] > roi

----------------------------------------------------------------------------
(* VideoProcessor.process_frame                                            *)

\* for vid, vdata in tracked_vehicles.items(): if vdata == detection: ...
RECURSIVE find_vehicle_id(_, _, _)
find_vehicle_id(current_vehicles, detection, i) ==
    IF i > Len(current_vehicles) THEN None
    ELSE IF current_vehicles[i].v = detection THEN Some(current_vehicles[i].k)
    ELSE find_vehicle_id(current_vehicles, detection, i + 1)

is_vehicle_saved_mut(counted, vehicle_id) == FALSE

\* VideoProcessor._is_vehicle_saved
is_vehicle_saved(counted, vehicle_id) == vehicle_id \in counted

next_total_vehicle_count_mut(total) == total + 2

\* self.total_vehicle_count += 1
next_total_vehicle_count(total) == total + 1

result_total_count_mut(total, enriched) == Len(enriched)

\* 'total_count': self.total_vehicle_count
result_total_count(total, enriched) == total

\* The end of an iteration of the loop over the detections: the enriched
\* detection is appended and, when crossing holds, the vehicle is counted.
count_detection(st, enriched_detection, crossing) ==
    [enriched_detections |-> Append(st.enriched_detections, enriched_detection),
     counted_vehicles |-> IF crossing
                          THEN st.counted_vehicles \cup {enriched_detection.vehicle_id}
                          ELSE st.counted_vehicles,
     total_vehicle_count |-> IF crossing
                             THEN next_total_vehicle_count(st.total_vehicle_count)
                             ELSE st.total_vehicle_count,
     counted_now |-> IF crossing
                     THEN Append(st.counted_now, enriched_detection.vehicle_id)
                     ELSE st.counted_now]

\* if (self.save_to_db and in_roi and speed is not None and
\*     not self._is_vehicle_saved(vehicle_id))
is_crossing(counted, enriched_detection) ==
    /\ save_to_db
    /\ enriched_detection.in_roi
    /\ enriched_detection.speed # None
    /\ ~is_vehicle_saved(counted, enriched_detection.vehicle_id)

\* The enriched detection.  The colour, the size and the licence plate of a
\* detection come from collaborators that hold no state of the tracker.
enrich(tracked, roi, detection, vehicle_id) ==
    [center |-> detection.center,
     vehicle_id |-> vehicle_id,
     speed |-> estimate_speed(tracked, vehicle_id),
     direction |-> get_direction(tracked, vehicle_id, detection),
     in_roi |-> is_in_roi(roi, detection)]

enrich_and_count(st, enriched_detection) ==
    count_detection(st, enriched_detection,
                    is_crossing(st.counted_vehicles, enriched_detection))

\* One iteration of the loop; found is the vehicle ID found for the
\* detection in the dict update_tracking returned, or None.
process_detection(st, detection, tracking, roi, found) ==
    IF found = None THEN st
    ELSE enrich_and_count(st, enrich(tracking.tracked_vehicles, roi, detection,
                                     Value(found)))

\* The loop over the detections of the frame; st.counted_now lists the ids
\* this call counted.
RECURSIVE process_detections(_, _, _, _, _)
process_detections(st, detections, i, tracking, roi) ==
    IF i > Len(detections) THEN st
    ELSE process_detections(
             process_detection(st, detections[i], tracking, roi,
                 find_vehicle_id(tracking.current_vehicles, detections[i], 1)),
             detections, i + 1, tracking, roi)

\* The state process_frame leaves and the result it returns.
frame_result(s, tracking, st) ==
    [tracked_vehicles |-> tracking.tracked_vehicles,
     vehicle_id_counter |-> tracking.vehicle_id_counter,
     roi_y |-> s.roi_y,
     total_vehicle_count |-> st.total_vehicle_count,
     counted_vehicles |-> st.counted_vehicles,
     tracking |-> tracking,
     detections |-> st.enriched_detections,
     total_count |-> result_total_count(st.total_vehicle_count, st.enriched_detections),
     counted_now |-> st.counted_now]

process_tracked(s, detections, tracking) ==
    frame_result(s, tracking,
        process_detections(
            [enriched_detections |-> <<>>,
             counted_vehicles |-> s.counted_vehicles,
             total_vehicle_count |-> s.total_vehicle_count,
             counted_now |-> <<>>],
            detections, 1, tracking, s.roi_y))

\* s is the state of the VideoProcessor and of its SpeedEstimator.
process_frame(s, detections, frame_number) ==
    process_tracked(s, detections,
        update_tracking(s.tracked_vehicles, s.vehicle_id_counter,
                        detections, frame_number))

----------------------------------------------------------------------------
(* VideoProcessor.reset, SpeedEstimator.reset, set_roi_position            *)

speed_estimator_reset_mut(s) == [s EXCEPT !.tracked_vehicles = <<>>]

\* SpeedEstimator.reset
speed_estimator_reset(s) ==
    [s EXCEPT !.tracked_vehicles = <<>>, !.vehicle_id_counter = 0]

\* VideoProcessor.reset
video_processor_reset(s) ==
    speed_estimator_reset(
        [s EXCEPT !.total_vehicle_count = 0, !.counted_vehicles = {}])

\* VideoProcessor.set_roi_position
set_roi_position(s, y_position) == [s EXCEPT !.roi_y = y_position]

----------------------------------------------------------------------------
(* websocket_endpoint: the frame loop                                      *)

Max(a, b) == IF a >= b THEN a ELSE b

\* The number process_frame is called with: the skip command moves
\* frame_count (forward by the frames grabbed, backward to the position
\* sought), then the frame read adds one.
next_frame_count(count, frame_skip) ==
    IF frame_skip > 0 THEN count + frame_skip + 1
    ELSE IF frame_skip < 0 THEN Max(0, count + frame_skip) + 1
    ELSE count + 1

\* The state of the program as one record.
State ==
    [tracked_vehicles |-> tracked_vehicles,
     vehicle_id_counter |-> vehicle_id_counter,
     roi_y |-> roi_y,
     total_vehicle_count |-> total_vehicle_count,
     counted_vehicles |-> counted_vehicles,
     frame_count |-> frame_count,
     ret |-> ret,
     issued |-> issued,
     increments |-> increments]

\* What a call that is not process_frame leaves in ret.
other_call(s, op) ==
    [op |-> op, frame_number |-> 0, detections |-> <<>>,
     before |-> s.tracked_vehicles, counter_before |-> s.vehicle_id_counter,
     counted_before |-> s.counted_vehicles, total_before |-> s.total_vehicle_count,
     log |-> <<>>, matched_ids |-> {}, removed |-> {}, enriched |-> <<>>,
     counted_now |-> <<>>, total_count |-> 0,
     last_total_count |-> IF op = "reset" THEN 0 ELSE s.ret.last_total_count]

\* The ids the log of an update_tracking call shows as given to new tracks.
new_ids(log) ==
    LET created == SelectSeq(log, LAMBDA e : e.matched = None)
    IN [i \in 1..Len(created) |-> created[i].vehicle_id]

\* The state after process_frame(frame, frame_number) returned r.
after_frame(s, detections, frame_number, r) ==
    [tracked_vehicles |-> r.tracked_vehicles,
     vehicle_id_counter |-> r.vehicle_id_counter,
     roi_y |-> r.roi_y,
     total_vehicle_count |-> r.total_vehicle_count,
     counted_vehicles |-> r.counted_vehicles,
     frame_count |-> frame_number,
     ret |-> [op |-> "process_frame", frame_number |-> frame_number,
              detections |-> detections,
              before |-> s.tracked_vehicles,
              counter_before |-> s.vehicle_id_counter,
              counted_before |-> s.counted_vehicles,
              total_before |-> s.total_vehicle_count,
              log |-> r.tracking.log,
              matched_ids |-> r.tracking.matched_ids,
              removed |-> r.tracking.removed,
              enriched |-> r.detections,
              counted_now |-> r.counted_now,
              total_count |-> r.total_count,
              last_total_count |-> r.total_count],
     issued |-> s.issued \o new_ids(r.tracking.log),
     increments |-> s.increments \o r.counted_now]

read_frame(s, detections, frame_number) ==
    after_frame(s, detections, frame_number,
                process_frame(s, detections, frame_number))

\* One iteration of the loop: the skip, the frame read and process_frame.
ws_frame(s, frame_skip, detections) ==
    read_frame(s, detections, next_frame_count(s.frame_count, frame_skip))

\* The state after construction (lifespan), before the first frame.
Constructed ==
    [tracked_vehicles |-> <<>>, vehicle_id_counter |-> 0,
     roi_y |-> default_roi_y, total_vehicle_count |-> 0,
     counted_vehicles |-> {}, frame_count |-> 0,
     issued |-> <<>>, increments |-> <<>>,
     ret |-> [op |-> "init", frame_number |-> 0, detections |-> <<>>,
              before |-> <<>>, counter_before |-> 0,
              counted_before |-> {}, total_before |-> 0,
              log |-> <<>>, matched_ids |-> {}, removed |-> {}, enriched |-> <<>>,
              counted_now |-> <<>>, total_count |-> 0, last_total_count |-> 0]]

\* The state after i frames of a stream that shows one vehicle, at P1.
WarmState[i \in 0..(speed_window - 1)] ==
    IF i = 0 THEN Constructed
    ELSE LET s == WarmState[i - 1] IN
         IF s.frame_count = i - 1 THEN ws_frame(s, 0, <<Det(P1)>>) ELSE s

\* Start either right after construction, or after a vehicle was seen at P1
\* on each of the first speed_window - 1 frames of a stream.
WarmFrames == {0, speed_window - 1}

\* The locals of a connection that is not open.
Closed == [open |-> FALSE, frame_count |-> 0, roi_y |-> default_roi_y, crossings |-> 0]

\* The connections SpecStreams follows; the other specifications follow one
\* connection, with frame_count, and leave streams as it is.
Connections == {1, 2}

NoStreams == [locals |-> [c \in Connections |-> Closed], owner |-> <<>>, last |-> 0]

Program(s) ==
    /\ tracked_vehicles' = s.tracked_vehicles
    /\ vehicle_id_counter' = s.vehicle_id_counter
    /\ roi_y' = s.roi_y
    /\ total_vehicle_count' = s.total_vehicle_count
    /\ counted_vehicles' = s.counted_vehicles
    /\ frame_count' = s.frame_count
    /\ ret' = s.ret
    /\ previous_total_count' = ret.last_total_count
    /\ issued' = s.issued
    /\ increments' = s.increments
    /\ steps' = steps + 1

Install(s) == Program(s) /\ UNCHANGED streams

ProgramStartsAs(s) ==
    /\ tracked_vehicles = s.tracked_vehicles
    /\ vehicle_id_counter = s.vehicle_id_counter
    /\ roi_y = s.roi_y
    /\ total_vehicle_count = s.total_vehicle_count
    /\ counted_vehicles = s.counted_vehicles
    /\ frame_count = s.frame_count
    /\ ret = s.ret
    /\ previous_total_count = 0
    /\ issued = s.issued
    /\ increments = s.increments
    /\ steps = 0

StartsAs(s) == ProgramStartsAs(s) /\ streams = NoStreams

Init == \E n \in WarmFrames : StartsAs(WarmState[n])

\* An iteration of the frame loop of a connection.
WsFrame(frame_skip, detections) ==
    /\ steps < MaxSteps
    /\ Install(ws_frame(State, frame_skip, detections))

\* A new /ws/video connection: the configuration's roi_y, frame_count = 0.
connect(s, roi_position) ==
    IF roi_position = None THEN [s EXCEPT !.frame_count = 0]
    ELSE [set_roi_position(s, Value(roi_position)) EXCEPT !.frame_count = 0]

WsConnect(roi_position) ==
    /\ steps < MaxSteps
    /\ Install([connect(State, roi_position) EXCEPT
                    !.ret = other_call(State, "connect")])

\* VideoProcessor.reset()
Reset ==
    /\ steps < MaxSteps
    /\ Install([video_processor_reset(State) EXCEPT
                    !.ret = other_call(State, "reset"),
                    !.issued = <<>>, !.increments = <<>>])

\* SpeedEstimator.reset()
SpeedEstimatorReset ==
    /\ steps < MaxSteps
    /\ Install([speed_estimator_reset(State) EXCEPT
                    !.ret = other_call(State, "speed_estimator_reset"),
                    !.issued = <<>>])

Next ==
    \/ \E frame_skip \in FrameSkips, detections \in DetectionLists :
           WsFrame(frame_skip, detections)
    \/ \E roi_position \in RoiPositions : WsConnect(roi_position)
    \/ Reset
    \/ SpeedEstimatorReset

Spec == Init /\ [][Next]_vars

----------------------------------------------------------------------------
(* The kinematics functions of SpeedEstimator applied to the track of one  *)
(* vehicle that a stream showed moving along a straight path.              *)

MaxEntries == 12

\* A path: the centre of the first detection and the displacement of the
\* last one from it.
Path(origin, total) == [origin |-> origin, total |-> total]

Paths ==
    {Path(<<100, 200>>, <<0, 100>>), Path(<<100, 300>>, <<0, -100>>),
     Path(<<100, 200>>, <<100, 0>>), Path(<<200, 200>>, <<-100, 0>>),
     Path(<<100, 200>>, <<0, 0>>), Path(<<0, 0>>, <<0, 0>>)}

\* The number of frames that show the vehicle.
Lengths == {1, 2, speed_window - 1, speed_window, MaxEntries - 1, MaxEntries}

\* The skip command sent before every frame: -1 reads the same frame again,
\* 0 reads the next one, 1 every other one.
PathSkips == {-1, 0, 1}

\* The centre of the i-th of the n detections along path p.
path_center(p, n, i) ==
    IF n = 1 THEN p.origin
    ELSE <<p.origin[1] + ((i - 1) * p.total[1]) \div (n - 1),
           p.origin[2] + ((i - 1) * p.total[2]) \div (n - 1)>>

\* The state after the n frames of the stream.
PathState(p, n, frame_skip) ==
    LET after[i \in 0..n] ==
            IF i = 0 THEN Constructed
            ELSE LET s == after[i - 1] IN
                 IF s.vehicle_id_counter >= 0
                 THEN ws_frame(s, frame_skip, <<Det(path_center(p, n, i))>>)
                 ELSE s
    IN after[n]

InitKin ==
    \E p \in Paths, n \in Lengths, frame_skip \in PathSkips :
        StartsAs(PathState(p, n, frame_skip))

\* The arguments of the calls.
VehicleIds == {0, 1}

QueryCenters ==
    {<<0, 0>>, <<5, 10>>, <<10, 5>>, <<5, 5>>, <<90, 190>>, <<100, 190>>,
     <<110, 210>>, <<100, 200>>, <<100, 300>>, <<100, 301>>, <<100, 400>>}

RoiLines == {300, 400}

\* A call that returns result and leaves the SpeedEstimator as it is.
Returns(call, result) ==
    /\ ret' = [call EXCEPT !.result = result]
    /\ UNCHANGED <<tracked_vehicles, vehicle_id_counter, roi_y,
                   total_vehicle_count, counted_vehicles, frame_count,
                   previous_total_count, issued, increments, steps, streams>>

Call(op, vehicle_id, detection) ==
    [op |-> op, vehicle_id |-> vehicle_id, detection |-> detection,
     result |-> None]

EstimateSpeed(vehicle_id, detection) ==
    Returns(Call("estimate_speed", vehicle_id, detection),
            estimate_speed(tracked_vehicles, vehicle_id))

GetDirection(vehicle_id, detection) ==
    Returns(Call("get_direction", vehicle_id, detection),
            get_direction(tracked_vehicles, vehicle_id, detection))

IsInRoi(detection) ==
    Returns(Call("is_in_roi", 0, detection), is_in_roi(roi_y, detection))

SetRoiPosition(y_position) ==
    /\ roi_y' = set_roi_position(State, y_position).roi_y
    /\ ret' = [op |-> "set_roi_position", y_position |-> y_position]
    /\ UNCHANGED <<tracked_vehicles, vehicle_id_counter,
                   total_vehicle_count, counted_vehicles, frame_count,
                   previous_total_count, issued, increments, steps, streams>>

NextKin ==
    \/ \E vehicle_id \in VehicleIds, c \in QueryCenters :
           EstimateSpeed(vehicle_id, Det(c))
    \/ \E vehicle_id \in VehicleIds, c \in QueryCenters :
           GetDirection(vehicle_id, Det(c))
    \/ \E c \in QueryCenters : IsInRoi(Det(c))
    \/ \E y_position \in RoiLines : SetRoiPosition(y_position)

SpecKin == InitKin /\ [][NextKin]_vars

----------------------------------------------------------------------------
(* A collaborator of process_frame raises.  process_frame has no handler,  *)
(* so the exception leaves it and ends the frame loop of the connection    *)
(* (except Exception in websocket_endpoint).                               *)

\* The collaborators process_frame calls for a detection before it appends
\* the enriched detection.
Collaborators == {"color_detector", "plate_detector", "plate_ocr"}

\* The state process_frame leaves when the exception is raised in the
\* iteration for detections[failing]: the iterations before it are complete.
process_until(s, detections, tracking, failing) ==
    frame_result(s, tracking,
        process_detections(
            [enriched_detections |-> <<>>,
             counted_vehicles |-> s.counted_vehicles,
             total_vehicle_count |-> s.total_vehicle_count,
             counted_now |-> <<>>],
            SubSeq(detections, 1, failing - 1), 1, tracking, s.roi_y))

process_frame_raising(s, detections, frame_number, failing) ==
    process_until(s, detections,
        update_tracking(s.tracked_vehicles, s.vehicle_id_counter,
                        detections, frame_number),
        failing)

\* The iteration for detections[failing] gets as far as the collaborators:
\* a vehicle ID is found for the detection.
reaches_collaborators(s, detections, frame_number, failing) ==
    find_vehicle_id(
        update_tracking(s.tracked_vehicles, s.vehicle_id_counter,
                        detections, frame_number).current_vehicles,
        detections[failing], 1) # None

\* The state a after the call, which returned nothing.
raised_frame(s, a, failing, collaborator) ==
    [a EXCEPT !.ret = [op |-> "process_frame_raised", returned |-> FALSE,
                       failing |-> failing, collaborator |-> collaborator,
                       last_total_count |-> s.ret.last_total_count] @@ a.ret]

ws_frame_raising(s, detections, frame_number, failing, collaborator) ==
    raised_frame(s,
        after_frame(s, detections, frame_number,
                    process_frame_raising(s, detections, frame_number, failing)),
        failing, collaborator)

\* The frame loop runs: no exception has ended it.
StreamOpen == ret.op # "process_frame_raised"

WsFrameOpen(frame_skip, detections) ==
    /\ StreamOpen
    /\ WsFrame(frame_skip, detections)

WsFrameRaises(detections, failing, collaborator) ==
    /\ steps < MaxSteps
    /\ StreamOpen
    /\ failing <= Len(detections)
    /\ reaches_collaborators(State, detections,
                             next_frame_count(frame_count, 0), failing)
    /\ Install(ws_frame_raising(State, detections,
                                next_frame_count(frame_count, 0),
                                failing, collaborator))

NextFail ==
    \/ \E detections \in DetectionLists : WsFrameOpen(0, detections)
    \/ \E detections \in DetectionLists, failing \in 1..2,
          collaborator \in Collaborators :
           WsFrameRaises(detections, failing, collaborator)
    \/ \E roi_position \in RoiPositions : WsConnect(roi_position)

SpecFail == Init /\ [][NextFail]_vars

----------------------------------------------------------------------------
(* Two /ws/video connections served at once.  Each runs its own            *)
(* websocket_endpoint coroutine with its own frame_count; both call the    *)
(* one VideoProcessor that lifespan made.  process_frame does not await,   *)
(* so the calls of the two coroutines interleave frame by frame.           *)

\* The program as connection c's coroutine sees it: its own frame_count.
seen_by(s, locals) == [s EXCEPT !.frame_count = locals.frame_count]

\* The locals of a connection once its configuration is read.
opened(roi_position) ==
    [open |-> TRUE, frame_count |-> 0, crossings |-> 0,
     roi_y |-> IF roi_position = None THEN default_roi_y ELSE Value(roi_position)]

\* The tracks the call that led to state a created, as made by c.
owned_by(a, c) ==
    LET created == SelectSeq(a.ret.log, LAMBDA e : e.matched = None)
    IN [i \in 1..Len(created) |-> [k |-> created[i].vehicle_id, v |-> c]]

\* streams after an iteration of c's frame loop led to state a.
after_stream_frame(a, c) ==
    [locals |-> [streams.locals EXCEPT
                    ![c].frame_count = a.frame_count,
                    ![c].crossings = @ + Len(a.ret.counted_now)],
     owner |-> streams.owner \o owned_by(a, c),
     last |-> c]

stream_frame(a, c) ==
    /\ Program(a)
    /\ streams' = after_stream_frame(a, c)

StreamFrame(c, detections) ==
    /\ steps < MaxSteps
    /\ streams.locals[c].open
    /\ stream_frame(ws_frame(seen_by(State, streams.locals[c]), 0, detections), c)

StreamConnect(c, roi_position) ==
    /\ steps < MaxSteps
    /\ ~streams.locals[c].open
    /\ Program([connect(State, roi_position) EXCEPT
                    !.ret = other_call(State, "connect")])
    /\ streams' = [streams EXCEPT !.locals[c] = opened(roi_position), !.last = c]

\* Connection 1 has shown a vehicle at P1 on the first speed_window - 1
\* frames of its stream; connection 2 is not yet open.
WarmStreams ==
    [locals |-> [c \in Connections |->
                    IF c = 1 THEN [opened(None) EXCEPT !.frame_count = speed_window - 1]
                    ELSE Closed],
     owner |-> <<[k |-> 0, v |-> 1]>>,
     last |-> 1]

InitStreams ==
    \/ ProgramStartsAs(Constructed) /\ streams = NoStreams
    \/ ProgramStartsAs(WarmState[speed_window - 1]) /\ streams = WarmStreams

NextStreams ==
    \/ \E c \in Connections, detections \in DetectionLists :
           StreamFrame(c, detections)
    \/ \E c \in Connections, roi_position \in RoiPositions :
           StreamConnect(c, roi_position)

SpecStreams == InitStreams /\ [][NextStreams]_vars

----------------------------------------------------------------------------
(* ColorDetector.detect_color (backend/core/color_detector.py).  A frame   *)
(* is a grid of BGR pixels, rows and columns counted from 0 as in the code.*)

\* Each colour's HSV ranges, as lower and upper bounds, in dict order.
COLOR_RANGES ==
    <<[name |-> "red", ranges |-> <<<<0, 100, 100>>, <<10, 255, 255>>,
                                    <<160, 100, 100>>, <<180, 255, 255>>>>],
      [name |-> "blue", ranges |-> <<<<100, 100, 100>>, <<130, 255, 255>>>>],
      [name |-> "green", ranges |-> <<<<40, 50, 50>>, <<80, 255, 255>>>>],
      [name |-> "yellow", ranges |-> <<<<20, 100, 100>>, <<30, 255, 255>>>>],
      [name |-> "white", ranges |-> <<<<0, 0, 200>>, <<180, 30, 255>>>>],
      [name |-> "black", ranges |-> <<<<0, 0, 0>>, <<180, 255, 50>>>>],
      [name |-> "gray", ranges |-> <<<<0, 0, 50>>, <<180, 50, 200>>>>],
      [name |-> "orange", ranges |-> <<<<10, 100, 100>>, <<20, 255, 255>>>>]>>

Min(a, b) == IF a < b THEN a ELSE b

\* cv2.cvtColor(region, cv2.COLOR_BGR2HSV) for one 8-bit pixel: V is the
\* largest channel, S = 255 * (V - min) / V, H is half the hue in degrees.
bgr_to_hsv(pixel) ==
    LET b == pixel[1]
        g == pixel[2]
        r == pixel[3]
        v == Max(b, Max(g, r))
        diff == v - Min(b, Min(g, r))
        degrees == IF diff = 0 THEN 0
                   ELSE IF v = r THEN ((60 * (g - b)) \div diff)
                   ELSE IF v = g THEN 120 + ((60 * (b - r)) \div diff)
                   ELSE 240 + ((60 * (r - g)) \div diff)
    IN <<(IF degrees < 0 THEN degrees + 360 ELSE degrees) \div 2,
         IF v = 0 THEN 0 ELSE round_half_even(255 * diff, v),
         v>>

\* Where a Python slice bound i falls in a dimension of n elements.
slice_bound(i, n) == IF i < 0 THEN Max(0, i + n) ELSE Min(i, n)

\* array[y1:y2, x1:x2] of an array of h rows and w columns: the rows and
\* columns it keeps, as [top, left, h, w].
slice(region, y1, y2, x1, x2) ==
    LET top == slice_bound(y1, region.h)
        bottom == slice_bound(y2, region.h)
        left == slice_bound(x1, region.w)
        right == slice_bound(x2, region.w)
    IN [top |-> region.top + top, left |-> region.left + left,
        h |-> Max(0, bottom - top), w |-> Max(0, right - left)]

\* The HSV pixels of a region of the frame, row by row.
hsv_pixels(frame, region) ==
    [i \in 1..(region.h * region.w) |->
        bgr_to_hsv(frame.pixels[<<region.top + ((i - 1) \div region.w),
                                  region.left + ((i - 1) % region.w)>>])]

\* hsv[max(0, center_h - margin_h):min(h, center_h + margin_h), ...]
center_region(region) ==
    LET center_h == region.h \div 2
        center_w == region.w \div 2
        margin_h == region.h \div 4
        margin_w == region.w \div 4
    IN slice(region, Max(0, center_h - margin_h), Min(region.h, center_h + margin_h),
             Max(0, center_w - margin_w), Min(region.w, center_w + margin_w))

in_range_mut(pixel, lower, upper) ==
    \A i \in 1..3 : lower[i] <= pixel[i] /\ pixel[i] < upper[i]

\* cv2.inRange: every channel within the bounds, both included.
in_range(pixel, lower, upper) ==
    \A i \in 1..3 : lower[i] <= pixel[i] /\ pixel[i] <= upper[i]

\* The mask of one pixel for a colour.
mask(pixel, ranges) ==
    IF Len(ranges) = 4
    THEN in_range(pixel, ranges[1], ranges[2]) \/ in_range(pixel, ranges[3], ranges[4])
    ELSE in_range(pixel, ranges[1], ranges[2])

\* np.sum(mask > 0)
pixel_count(pixels, ranges) ==
    Cardinality({i \in 1..Len(pixels) : mask(pixels[i], ranges)})

color_scores(pixels) ==
    [i \in 1..Len(COLOR_RANGES) |->
        [name |-> COLOR_RANGES[i].name,
         score |-> pixel_count(pixels, COLOR_RANGES[i].ranges)]]

\* max(color_scores.values())
max_score(scores) ==
    CHOOSE m \in Range([i \in 1..Len(scores) |-> scores[i].score]) :
        \A i \in 1..Len(scores) : scores[i].score <= m

\* max(color_scores, key=color_scores.get): the first key with the maximum.
detected_color(scores) ==
    LET first == CHOOSE i \in 1..Len(scores) :
                     /\ scores[i].score = max_score(scores)
                     /\ \A j \in 1..(i - 1) : scores[j].score < max_score(scores)
    IN scores[first].name

\* The colour for the scores of the centre region.
color_of(scores) ==
    IF max_score(scores) = 0 THEN "unknown" ELSE detected_color(scores)

\* What detect_color computes: the two regions, the scores and the result.
detect_color(frame, detection) ==
    LET vehicle_region == slice([top |-> 0, left |-> 0, h |-> frame.h, w |-> frame.w],
                                detection.bbox[2], detection.bbox[4],
                                detection.bbox[1], detection.bbox[3])
        center == center_region(vehicle_region)
        pixels == hsv_pixels(frame, center)
    IN [vehicle_region |-> vehicle_region,
        center_region |-> center,
        pixels |-> pixels,
        scores |-> color_scores(pixels),
        result |-> IF vehicle_region.h * vehicle_region.w = 0 THEN "unknown"
                   ELSE IF center.h * center.w = 0 THEN "unknown"
                   ELSE color_of(color_scores(pixels))]

\* The side of the square frames.
FrameSide == 5

\* BGR pixels: white, red, a red that is at the edge of orange, blue, a cyan
\* that is in no range, and a dark gray at the edge of black.
Palette ==
    {<<255, 255, 255>>, <<0, 0, 255>>, <<0, 85, 255>>, <<255, 0, 0>>,
     <<255, 255, 0>>, <<50, 50, 50>>}

\* A frame whose outermost rows and columns show border and whose inner
\* pixels repeat the 2 x 2 pattern inner.
Frame(border, inner) ==
    [h |-> FrameSide, w |-> FrameSide,
     pixels |-> [rc \in (0..(FrameSide - 1)) \X (0..(FrameSide - 1)) |->
                    IF \/ rc[1] \in {0, FrameSide - 1}
                       \/ rc[2] \in {0, FrameSide - 1}
                    THEN border
                    ELSE inner[(rc[1] % 2) * 2 + (rc[2] % 2) + 1]]]

\* The bounding boxes (x1, y1, x2, y2): the whole frame, its inner 2 x 2
\* pixels, two boxes without area, a box beyond the right and lower edge of
\* the frame and a box beyond its left and upper edge.
Boxes ==
    {<<0, 0, FrameSide, FrameSide>>, <<1, 1, 3, 3>>, <<2, 2, 2, 2>>,
     <<2, 0, 2, FrameSide>>,
     <<FrameSide + 1, FrameSide + 1, 2 * FrameSide, 2 * FrameSide>>,
     <<0 - FrameSide, 0 - FrameSide, -1, -1>>}

\* cap.read() returned a frame.
InitColor ==
    \E border \in Palette, inner \in [1..4 -> Palette] :
        StartsAs([Constructed EXCEPT
                     !.ret = [op |-> "read", frame |-> Frame(border, inner)]])

DetectColor(bbox) ==
    /\ ret' = [op |-> "detect_color", frame |-> ret.frame, bbox |-> bbox,
               out |-> detect_color(ret.frame, [bbox |-> bbox])]
    /\ UNCHANGED <<tracked_vehicles, vehicle_id_counter, roi_y,
                   total_vehicle_count, counted_vehicles, frame_count,
                   previous_total_count, issued, increments, steps, streams>>

NextColor == \E bbox \in Boxes : DetectColor(bbox)

SpecColor == InitColor /\ [][NextColor]_vars

----------------------------------------------------------------------------
(* One connection that plays a video to its end: the loop of               *)
(* websocket_endpoint reads a frame and calls process_frame, which calls   *)
(* update_tracking, until the capture has no frame left.  The client only  *)
(* skips forward, so the frame numbers of the calls increase strictly.     *)

\* The number of frames of the video.
VideoFrames == 62

\* The "frames" values of the skip commands of this client.
LiveSkips == {9, 30}

\* The fewest frames a loop iteration advances by.
MinAdvance ==
    CHOOSE a \in {next_frame_count(0, k) : k \in LiveSkips} :
        \A k \in LiveSkips : a <= next_frame_count(0, k)

\* What the detector reports on a frame: nothing, or the vehicle at P1.
LiveDetections == {<<>>, <<Det(P1)>>}

\* ret, frame = cap.read(): ret is False past the last frame, and the loop
\* breaks.
cap_read(frame_number) == frame_number <= VideoFrames

LiveFrame(frame_skip, detections) ==
    /\ cap_read(next_frame_count(frame_count, frame_skip))
    /\ Install(ws_frame(State, frame_skip, detections))

NextLive ==
    \E frame_skip \in LiveSkips, detections \in LiveDetections :
        LiveFrame(frame_skip, detections)

\* The loop is a "while True" that nothing suspends for ever: as long as
\* the video has a frame, an iteration is taken.
SpecLive == Init /\ [][NextLive]_vars /\ WF_vars(NextLive)

----------------------------------------------------------------------------
(* Properties                                                              *)

NoDuplicates(seq) == \A i, j \in 1..Len(seq) : i # j => seq[i] # seq[j]

IsPrefix(p, h) == Len(p) <= Len(h) /\ SubSeq(h, 1, Len(p)) = p

FramesBehind(history) == ret.frame_number - Last(history).frame_number

\* C1: with no VideoProcessor.reset in between, the total is incremented at
\* most once for any track id, however many frames show the track in the
\* ROI with a valid speed.
C1_CountedAtMostOnce == NoDuplicates(increments)

\* A frame shows a track in the ROI with a valid speed that was counted by
\* an earlier frame.
C1_Witness ==
    /\ ret.op = "process_frame"
    /\ \E i \in 1..Len(ret.enriched) :
           /\ ret.enriched[i].in_roi
           /\ ret.enriched[i].speed # None
           /\ ret.enriched[i].vehicle_id \in ret.counted_before
           /\ ret.enriched[i].vehicle_id \in Range(increments)

\* C2: with no reset in between, no two tracks of the store share an id and
\* the id of a new track was never given to an earlier track, evicted or not.
C2_TrackIdsUnique ==
    /\ \A i, j \in 1..Len(tracked_vehicles) :
           i # j => tracked_vehicles[i].k # tracked_vehicles[j].k
    /\ NoDuplicates(issued)
    /\ DictKeys(tracked_vehicles) \subseteq Range(issued)

\* A new track is created after an earlier track was evicted.
C2_Witness ==
    /\ ret.op = "process_frame"
    /\ \E i \in 1..Len(ret.log) : ret.log[i].matched = None
    /\ \E j \in 1..Len(issued) :
           /\ ~DictHas(ret.before, issued[j])
           /\ \A i \in 1..Len(ret.log) : ret.log[i].vehicle_id # issued[j]

\* C3: the total a process_frame call returns is never below the total the
\* process_frame call before it returned, unless VideoProcessor.reset ran in
\* between; and only VideoProcessor.reset lowers the total, to zero.
C3_TotalNeverDecreases ==
    /\ ret.op = "process_frame" => ret.total_count >= previous_total_count
    /\ ret.op # "reset" => total_vehicle_count >= ret.total_before
    /\ ret.op = "reset" => total_vehicle_count = 0

\* A process_frame call that follows one which returned a total of 1 or more.
C3_Witness ==
    /\ ret.op = "process_frame"
    /\ previous_total_count >= 1
    /\ ret.counted_now = <<>>

\* What match_detection is to return for a detection centred at center: the
\* first track, in iteration order, at the minimum distance, when that
\* distance is strictly below the threshold.
Candidates(tracked) == {i \in 1..Len(tracked) : Len(tracked[i].v) > 0}

LastDistance2(tracked, i, center) == distance2(center, Last(tracked[i].v).center)

IsNearest(tracked, i, center) ==
    \A j \in Candidates(tracked) :
        LastDistance2(tracked, i, center) <= LastDistance2(tracked, j, center)

MatchIs(tracked, center, result) ==
    LET nearest == {i \in Candidates(tracked) : IsNearest(tracked, i, center)} IN
    IF \E i \in nearest :
           LastDistance2(tracked, i, center) < tracking_threshold * tracking_threshold
    THEN result = Some(tracked[CHOOSE i \in nearest : \A j \in nearest : i <= j].k)
    ELSE result = None

\* C4: match_detection returns the first track, in iteration order, among
\* those whose last entry is at the minimum distance from the detection, and
\* only when that distance is strictly less than tracking_threshold.
C4_MatchNearestBelowThreshold ==
    /\ \A c \in Centers :
           MatchIs(tracked_vehicles, c, match_detection(tracked_vehicles, Det(c)))
    /\ (ret.op = "process_frame" /\ Len(ret.log) > 0) =>
           MatchIs(ret.before, ret.log[1].detection.center, ret.log[1].matched)

\* The first detection of the frame had two tracks at the same minimum
\* distance below the threshold, and the store now holds a track at exactly
\* the threshold from a centre.
C4_Witness ==
    /\ ret.op = "process_frame"
    /\ Len(ret.log) > 0
    /\ ret.log[1].matched # None
    /\ \E i, j \in Candidates(ret.before) :
           /\ i # j
           /\ IsNearest(ret.before, i, ret.log[1].detection.center)
           /\ IsNearest(ret.before, j, ret.log[1].detection.center)
    /\ \E c \in Centers, i \in Candidates(tracked_vehicles) :
           /\ IsNearest(tracked_vehicles, i, c)
           /\ LastDistance2(tracked_vehicles, i, c) = tracking_threshold * tracking_threshold

\* C5: a detection that matches no track creates exactly one new track: its
\* id is the counter's value before the step, the counter goes up by one, and
\* the new history holds exactly that detection with the call's frame number.
C5_UnmatchedCreatesTrack ==
    ret.op = "process_frame" =>
        \A i \in 1..Len(ret.log) :
            LET e == ret.log[i] IN
            e.matched = None =>
                /\ e.vehicle_id = e.counter_before
                /\ e.counter_after = e.counter_before + 1
                /\ ~e.had_track
                /\ e.tracks_after = e.tracks_before + 1
                /\ e.history_after =
                       <<[center |-> e.detection.center,
                          frame_number |-> ret.frame_number]>>

\* A detection matched no track of a store that held tracks.
C5_Witness ==
    /\ ret.op = "process_frame"
    /\ \E i \in 1..Len(ret.log) :
           ret.log[i].matched = None /\ ret.log[i].tracks_before >= 1

\* C6: after the call for frame N a track that got no detection in the call
\* is in the store iff N minus its last-seen frame is at most 30.
C6_EvictedAfterThirty ==
    ret.op = "process_frame" =>
        \A i \in 1..Len(ret.before) :
            LET t == ret.before[i] IN
            t.k \notin ret.matched_ids =>
                (DictHas(tracked_vehicles, t.k) <=> FramesBehind(t.v) <= 30)

\* One call kept a track last seen 30 frames before and removed a track
\* last seen 31 frames before.
C6_Witness ==
    /\ ret.op = "process_frame"
    /\ \E i, j \in 1..Len(ret.before) :
           /\ ret.before[i].k \notin ret.matched_ids
           /\ FramesBehind(ret.before[i].v) = 30
           /\ DictHas(tracked_vehicles, ret.before[i].k)
           /\ ret.before[j].k \notin ret.matched_ids
           /\ FramesBehind(ret.before[j].v) = 31
           /\ ~DictHas(tracked_vehicles, ret.before[j].k)

\* C7: the call for frame N never appends a detection to a track whose
\* last-seen frame is more than 30 frames behind N.
C7_NoStaleMatch ==
    ret.op = "process_frame" =>
        \A i \in 1..Len(ret.log) :
            LET e == ret.log[i] IN
            e.matched # None => FramesBehind(e.history_before) <= 30

\* C8: the frame numbers of every history are in non-decreasing order.
C8_HistoryFrameOrdered ==
    \A t \in 1..Len(tracked_vehicles) :
        LET history == tracked_vehicles[t].v IN
        \A i, j \in 1..Len(history) :
            i < j => history[i].frame_number <= history[j].frame_number

\* The number of log entries of the last call that went to vehicle_id.
AppendedTo(vehicle_id) ==
    Cardinality({i \in 1..Len(ret.log) : ret.log[i].vehicle_id = vehicle_id})

\* C9: the history of a track that stays in the store changes only by
\* entries appended at its end, one per detection associated with it; a
\* surviving track no detection matched keeps exactly its history.
C9_HistoryAppendOnly ==
    ret.op = "process_frame" =>
        /\ \A i \in 1..Len(ret.before) :
               LET t == ret.before[i]
                   history == DictGet(tracked_vehicles, t.k, <<>>)
               IN DictHas(tracked_vehicles, t.k) =>
                      /\ IsPrefix(t.v, history)
                      /\ Len(history) = Len(t.v) + AppendedTo(t.k)
                      /\ \A n \in (Len(t.v) + 1)..Len(history) :
                             history[n].frame_number = ret.frame_number
                      /\ t.k \notin ret.matched_ids => history = t.v
        /\ \A i \in 1..Len(ret.log) :
               ret.log[i].history_after =
                   Append(ret.log[i].history_before,
                          [center |-> ret.log[i].detection.center,
                           frame_number |-> ret.frame_number])

\* One call extended a track that had a history and left another track as
\* it was.
C9_Witness ==
    /\ ret.op = "process_frame"
    /\ \E i, j \in 1..Len(ret.before) :
           /\ ret.before[i].k \in ret.matched_ids
           /\ DictHas(tracked_vehicles, ret.before[i].k)
           /\ Len(ret.before[i].v) >= 2
           /\ ret.before[j].k \notin ret.matched_ids
           /\ DictHas(tracked_vehicles, ret.before[j].k)

\* C10: estimate_speed returns None for every track with fewer than 10
\* history entries and for every id that is not in the store.
C10_NoSpeedBelowTenEntries ==
    /\ \A vehicle_id \in 0..vehicle_id_counter :
           Len(DictGet(tracked_vehicles, vehicle_id, <<>>)) < 10 =>
               estimate_speed(tracked_vehicles, vehicle_id) = None
    /\ ret.op = "process_frame" =>
           \A i \in 1..Len(ret.enriched) :
               Len(DictGet(tracked_vehicles, ret.enriched[i].vehicle_id, <<>>)) < 10
                   => ret.enriched[i].speed = None

\* A track with 9 entries on different frames got no speed, and the id the
\* counter holds is not in the store.
C10_Witness ==
    /\ ret.op = "process_frame"
    /\ \E i \in 1..Len(ret.enriched) :
           LET history == DictGet(tracked_vehicles, ret.enriched[i].vehicle_id, <<>>) IN
           /\ Len(history) = 9
           /\ history[1].frame_number # history[9].frame_number
           /\ ret.enriched[i].speed = None
    /\ ~DictHas(tracked_vehicles, vehicle_id_counter)

\* The history of the track the last call was made for.
CalledHistory == DictGet(tracked_vehicles, ret.vehicle_id, <<>>)

\* Ten entries, one per frame on ten frames in a row, whose centres move
\* from (100,200) to (100,300).
TenFramesDown(history) ==
    /\ Len(history) = 10
    /\ \A i \in 1..10 :
           history[i].frame_number = history[1].frame_number + (i - 1)
    /\ history[1].center = <<100, 200>>
    /\ history[10].center = <<100, 300>>

\* C11 as stated: for a track with exactly 10 history entries, one per
\* frame on 10 frames, whose centres move from (100,200) to (100,300), with
\* fps = 30 and pixels_per_meter = 8, estimate_speed returns 135.0 km/h.
C11_SpeedIs135 ==
    (ret.op = "estimate_speed" /\ TenFramesDown(CalledHistory))
        => ret.result = Some(13500)

\* C11, amended: for that track estimate_speed returns 150.0 km/h, because
\* the elapsed time is the difference of the frame numbers of the first and
\* the last entry, 9 frames: (100 / 8) / (9 / 30) * 3.6.
C11_SpeedIs150 ==
    (ret.op = "estimate_speed" /\ TenFramesDown(CalledHistory))
        => /\ CalledHistory[10].frame_number - CalledHistory[1].frame_number = 9
           /\ ret.result = Some(15000)

\* estimate_speed was called for such a track, with the constants of the
\* claim.
C11_Witness ==
    /\ ret.op = "estimate_speed"
    /\ TenFramesDown(CalledHistory)
    /\ fps = 30 /\ pixels_per_meter = 8
    /\ ret.result # None

\* C12: when the first and the last of a track's 10 most recent history
\* entries carry the same frame number, estimate_speed returns None and
\* raises no division-by-zero error.
C12_ZeroTimeGivesNone ==
    (/\ ret.op = "estimate_speed"
     /\ Len(CalledHistory) >= 10
     /\ recent_history(CalledHistory)[1].frame_number
            = Last(CalledHistory).frame_number)
        => (ret.result = None /\ ret.result # ZeroDivisionError)

\* estimate_speed was called for a track with more than 10 entries, all on
\* one frame number, whose vehicle moved within the last 10.
C12_Witness ==
    /\ ret.op = "estimate_speed"
    /\ Len(CalledHistory) > 10
    /\ recent_history(CalledHistory)[1].frame_number
           = Last(CalledHistory).frame_number
    /\ recent_history(CalledHistory)[1].center # Last(CalledHistory).center
    /\ ret.result = None

\* A store that holds one track, of two entries that both are entry.
TrackOf(vehicle_id, entry) == <<[k |-> vehicle_id, v |-> <<entry, entry>>]>>

\* What get_direction returns for a track that began with entry.
DirectionFrom(entry) ==
    get_direction(TrackOf(ret.vehicle_id, entry), ret.vehicle_id, ret.detection)

\* C13: get_direction returns None for a track with fewer than 2 history
\* entries (and for an id without a track); otherwise its result is fixed by
\* the centre of the first-ever entry and the centre of the detection passed
\* in, whatever the rest of the history and its last-10 window hold.
C13_DirectionFromFirstEntry ==
    ret.op = "get_direction" =>
        IF Len(CalledHistory) < 2 THEN ret.result = None
        ELSE /\ ret.result # None
             /\ ret.result = DirectionFrom([center |-> CalledHistory[1].center,
                                             frame_number |-> 0])

\* get_direction was called for a track of more than 10 entries and
\* returned what the first-ever entry gives, which is not what the first
\* entry of the last-10 window would give.
C13_Witness ==
    /\ ret.op = "get_direction"
    /\ Len(CalledHistory) > 10
    /\ ret.result = DirectionFrom(CalledHistory[1])
    /\ ret.result # DirectionFrom(recent_history(CalledHistory)[1])

\* The displacement from the first recorded centre to the centre passed in.
Displacement ==
    <<ret.detection.center[1] - CalledHistory[1].center[1],
      ret.detection.center[2] - CalledHistory[1].center[2]>>

DirectionTable(dx, dy) ==
    /\ ret.result = Some("down") <=> (Abs(dy) > Abs(dx) /\ dy > 0)
    /\ ret.result = Some("up") <=> (Abs(dy) > Abs(dx) /\ dy <= 0)
    /\ ret.result = Some("right") <=> (Abs(dy) <= Abs(dx) /\ dx > 0)
    /\ ret.result = Some("left") <=> (Abs(dy) <= Abs(dx) /\ dx <= 0)

\* C14: for the displacement (dx, dy) from the first recorded centre to the
\* current centre, get_direction returns 'down' if |dy| > |dx| and dy > 0,
\* 'up' if |dy| > |dx| and dy <= 0, otherwise 'right' if dx > 0 and 'left'
\* if dx <= 0; (0,0)->(5,10) gives 'down' and (0,0)->(10,5) gives 'right'.
C14_DirectionLabels ==
    (ret.op = "get_direction" /\ Len(CalledHistory) >= 2) =>
        /\ DirectionTable(Displacement[1], Displacement[2])
        /\ CalledHistory[1].center = <<0, 0>> =>
               /\ ret.detection.center = <<5, 10>> => ret.result = Some("down")
               /\ ret.detection.center = <<10, 5>> => ret.result = Some("right")

\* get_direction was called with |dx| = |dy| > 0 and returned a horizontal
\* label.
C14_Witness ==
    /\ ret.op = "get_direction"
    /\ Len(CalledHistory) >= 2
    /\ Abs(Displacement[1]) = Abs(Displacement[2])
    /\ Displacement[1] # 0
    /\ ret.result \in {Some("left"), Some("right")}

\* C15: is_in_roi is true if and only if the centre's y is strictly greater
\* than roi_y, which is the value set_roi_position set last: a call of
\* set_roi_position leaves its argument in roi_y, and is_in_roi compares with
\* roi_y and leaves it as it is.
C15_InRoiIffBelowLine ==
    [][/\ ret'.op = "set_roi_position" => roi_y' = ret'.y_position
       /\ ret'.op = "is_in_roi" =>
              /\ roi_y' = roi_y
              /\ ret'.result <=> ret'.detection.center[2] > roi_y]_vars

\* After set_roi_position moved the line off its default, is_in_roi was
\* called with a centre exactly on the line and returned false.
C15_Witness ==
    /\ ret.op = "is_in_roi"
    /\ roi_y # default_roi_y
    /\ ret.detection.center[2] = roi_y
    /\ ret.result = FALSE

\* The ids of the tracks that were not counted before the call and that a
\* detection of the frame was associated with whose centre is in the ROI,
\* while the track has a speed estimate.
Crossing ==
    {ret.log[i].vehicle_id : i \in
        {j \in 1..Len(ret.log) :
            /\ ret.log[j].vehicle_id \notin ret.counted_before
            /\ is_in_roi(roi_y, ret.log[j].detection)
            /\ estimate_speed(tracked_vehicles, ret.log[j].vehicle_id) # None}}

Occurrences(seq, x) == Cardinality({i \in 1..Len(seq) : seq[i] = x})

\* C16: in every process_frame call, each track that is not yet counted and
\* has a detection in that frame whose centre is in the ROI and for which a
\* valid speed estimate exists is marked counted in that call and raises the
\* total count by exactly one.
C16_CrossingIsCounted ==
    ret.op = "process_frame" =>
        /\ \A vehicle_id \in Crossing :
               /\ vehicle_id \in counted_vehicles
               /\ Occurrences(ret.counted_now, vehicle_id) = 1
        /\ total_vehicle_count >= ret.total_before + Cardinality(Crossing)

\* C17: VideoProcessor.reset, from any reachable state, leaves the track
\* store empty, the id counter at 0, the counted set empty and the total
\* count at 0; calling reset twice in a row leaves exactly the same state as
\* calling it once.
C17_ResetClearsAll ==
    /\ ret.op = "reset" =>
           /\ tracked_vehicles = <<>>
           /\ vehicle_id_counter = 0
           /\ counted_vehicles = {}
           /\ total_vehicle_count = 0
    /\ video_processor_reset(video_processor_reset(State))
           = video_processor_reset(State)

\* reset was called with tracks in the store, ids given out and a vehicle
\* counted, and cleared them.
C17_Witness ==
    /\ ret.op = "reset"
    /\ ret.before # <<>>
    /\ ret.counter_before > 0
    /\ ret.counted_before # {}
    /\ ret.total_before > 0
    /\ tracked_vehicles = <<>>
    /\ total_vehicle_count = 0

\* The number of pixels of the centre region that the ranges of the colour
\* called name match.
Matching(name) ==
    LET color == CHOOSE i \in 1..Len(COLOR_RANGES) : COLOR_RANGES[i].name = name
    IN Cardinality({i \in 1..Len(ret.out.pixels) :
                       mask(ret.out.pixels[i], COLOR_RANGES[color].ranges)})

ColorNames == {COLOR_RANGES[i].name : i \in 1..Len(COLOR_RANGES)}

\* C18: detect_color returns the name, among the 8 predefined colours,
\* whose HSV ranges match the largest number of pixels of the central region
\* of the crop, and 'unknown' when no pixel matches any range; a central
\* region filled uniformly with HSV (0,0,255) is classified 'white'.
C18_MostMatchedColor ==
    ret.op = "detect_color" =>
        /\ Cardinality(ColorNames) = 8
        /\ IF \A name \in ColorNames : Matching(name) = 0
           THEN ret.out.result = "unknown"
           ELSE /\ ret.out.result \in ColorNames
                /\ \A name \in ColorNames :
                       Matching(name) <= Matching(ret.out.result)
        /\ (/\ ret.out.pixels # <<>>
            /\ \A i \in 1..Len(ret.out.pixels) : ret.out.pixels[i] = <<0, 0, 255>>)
               => ret.out.result = "white"

\* detect_color looked at a central region of several pixels in which
\* two colours matched, one of them more pixels than the other, and returned
\* a colour that is not the first of the 8.
C18_Witness ==
    /\ ret.op = "detect_color"
    /\ Len(ret.out.pixels) > 1
    /\ \E name \in ColorNames :
           /\ Matching(name) > 0
           /\ Matching(name) < Matching(ret.out.result)
    /\ ret.out.result \in ColorNames \ {"red"}

\* What the call would have left and returned had no collaborator failed.
Unfailed ==
    process_frame([State EXCEPT !.tracked_vehicles = ret.before,
                                !.vehicle_id_counter = ret.counter_before,
                                !.counted_vehicles = ret.counted_before,
                                !.total_vehicle_count = ret.total_before],
                  ret.detections, ret.frame_number)

\* C19: when a collaborator called by process_frame raises, process_frame
\* still returns a result for the frame, and the detections of the frame are
\* processed as they are without the failure (only the colour or the plate
\* of the affected detection is degraded).
C19_FrameSurvivesFailure ==
    ret.op = "process_frame_raised" =>
        /\ ret.returned
        /\ ret.enriched = Unfailed.detections
        /\ total_vehicle_count = Unfailed.total_vehicle_count
        /\ counted_vehicles = Unfailed.counted_vehicles

\* The connection whose detections created the track vehicle_id.
Owner(vehicle_id) == DictGet(streams.owner, vehicle_id, 0)

\* C20: when two /ws/video connections are processed concurrently, each has
\* its own track store, id counter, ROI line and crossing count: a detection
\* of one stream is never associated with a track created from the other
\* stream's detections, the ROI flag of a detection is taken against the
\* line of its own stream, and the total reported to a stream counts the
\* crossings of that stream only.
C20_StreamsAreIndependent ==
    ret.op = "process_frame" =>
        /\ \A i \in 1..Len(ret.log) : Owner(ret.log[i].vehicle_id) = streams.last
        /\ \A i \in 1..Len(ret.enriched) :
               ret.enriched[i].in_roi
                   <=> ret.enriched[i].center[2] > streams.locals[streams.last].roi_y
        /\ ret.total_count = streams.locals[streams.last].crossings

\* The box of the last detect_color call has no area, lies wholly outside
\* the frame, or is less than 4 pixels wide or high, so that a quarter of
\* its side, the margin of the central region, is 0.
DegenerateBox ==
    LET x1 == ret.bbox[1]
        y1 == ret.bbox[2]
        x2 == ret.bbox[3]
        y2 == ret.bbox[4]
    IN \/ x1 = x2 \/ y1 = y2
       \/ x2 <= 0 \/ y2 <= 0 \/ x1 >= ret.frame.w \/ y1 >= ret.frame.h
       \/ x2 - x1 < 4 \/ y2 - y1 < 4

\* C21: detect_color returns 'unknown' and raises no error for every
\* degenerate bounding box: a box without area, a box lying wholly outside
\* the frame, and a box so small that its central region is empty.
C21_DegenerateBoxUnknown ==
    (ret.op = "detect_color" /\ DegenerateBox) => ret.out.result = "unknown"

\* The first and the last of the 10 most recent entries of the track the
\* last call was made for.
WindowFirst == CalledHistory[Len(CalledHistory) - 9]

WindowLast == CalledHistory[Len(CalledHistory)]

\* v is x / y rounded to the nearest integer.
IsRounded(v, x, y) == 2 * Abs(v * y - x) <= Abs(y)

\* v hundredths of a km/h is what the pixel distance between the two
\* entries, over their frame difference, comes to.
IsSpeedBetween(v, first, last) ==
    \E pixels \in 0..200 :
        /\ pixels * pixels = distance2(last.center, first.center)
        /\ IsRounded(v, pixels * fps * 36 * 100,
                     pixels_per_meter * 10
                         * (last.frame_number - first.frame_number))

\* A store that holds one track: first, 8 times first again, then last.
WindowOnly(vehicle_id, first, last) ==
    <<[k |-> vehicle_id,
       v |-> [i \in 1..10 |-> IF i < 10 THEN first ELSE last]]>>

\* C22: when estimate_speed returns a value, it is (distance between the
\* centres of the first and the last of the 10 most recent entries /
\* pixels_per_meter) / (difference of their frame numbers / fps) * 3.6,
\* rounded to 2 decimals, whatever the older entries, the 8 entries in
\* between and the current_detection argument are.
C22_SpeedFromWindowEnds ==
    (ret.op = "estimate_speed" /\ ret.result # None) =>
        /\ Len(CalledHistory) >= 10
        /\ IsSpeedBetween(Value(ret.result), WindowFirst, WindowLast)
        /\ ret.result = estimate_speed(
                            WindowOnly(ret.vehicle_id, WindowFirst, WindowLast),
                            ret.vehicle_id)

\* estimate_speed returned a speed for a track of more than 10 entries
\* whose first-ever entry is not where the window begins, whose entries in
\* between differ from the window's ends, and with a current_detection that
\* is not the last entry.
C22_Witness ==
    /\ ret.op = "estimate_speed"
    /\ ret.result # None
    /\ Len(CalledHistory) > 10
    /\ CalledHistory[1].center # WindowFirst.center
    /\ CalledHistory[Len(CalledHistory) - 5].center
           \notin {WindowFirst.center, WindowLast.center}
    /\ ret.detection.center # WindowLast.center
    /\ Value(ret.result) > 0

\* C23: frame processing is a single atomic step for the store: when a
\* process_frame call does not complete because a collaborator raises
\* part-way, the track store, the id counter, the counted set and the total
\* count are exactly as they were before the call.
C23_FailedFrameLeavesNoTrace ==
    ret.op = "process_frame_raised" =>
        /\ tracked_vehicles = ret.before
        /\ vehicle_id_counter = ret.counter_before
        /\ counted_vehicles = ret.counted_before
        /\ total_vehicle_count = ret.total_before

\* C24: process_frame returns exactly one enriched record, carrying a track
\* id, for every detection the detector returned for that frame, also when
\* two detections of the frame are associated with the same track.
C24_OneRecordPerDetection ==
    ret.op = "process_frame" =>
        /\ Len(ret.enriched) = Len(ret.detections)
        /\ \A i \in 1..Len(ret.enriched) :
               /\ ret.enriched[i].center = ret.detections[i].center
               /\ ret.enriched[i].vehicle_id = ret.log[i].vehicle_id

\* C25: at the first process_frame call of every stream the track store is
\* empty, the id counter is 0, the counted set is empty and the total count
\* is 0: nothing of an earlier stream carries over.
C25_StreamStartsEmpty ==
    (/\ ret.op = "process_frame"
     /\ ret.frame_number = 1
     /\ streams.locals[streams.last].frame_count = 1) =>
        /\ ret.before = <<>>
        /\ ret.counter_before = 0
        /\ ret.counted_before = {}
        /\ ret.total_before = 0

\* C26: whatever process_frame calls and resets (VideoProcessor.reset or
\* SpeedEstimator.reset) came before, a track that a call creates is not
\* already marked counted.
C26_NewTrackNotCounted ==
    ret.op = "process_frame" =>
        \A i \in 1..Len(ret.log) :
            ret.log[i].matched = None
                => ret.log[i].vehicle_id \notin ret.counted_before

\* C27: in every reachable state total_vehicle_count is the number of ids
\* in counted_vehicles.
C27_TotalIsCountedSize == total_vehicle_count = Cardinality(counted_vehicles)

\* A vehicle was counted, SpeedEstimator.reset emptied the store, and the
\* last call made a new track under the counted id.
C27_Witness ==
    /\ ret.op = "process_frame"
    /\ ret.before = <<>>
    /\ total_vehicle_count = 1
    /\ \E i \in 1..Len(ret.log) :
           /\ ret.log[i].matched = None
           /\ ret.log[i].vehicle_id \in counted_vehicles

\* C28: estimate_speed returns no estimate or a speed that is greater than
\* or equal to zero for every track that update_tracking calls can build,
\* never a negative speed.
C28_SpeedNotNegative ==
    /\ \A i \in 1..Len(tracked_vehicles) :
           LET speed == estimate_speed(tracked_vehicles, tracked_vehicles[i].k)
           IN speed = None \/ Value(speed) >= 0
    /\ ret.op = "process_frame" =>
           \A i \in 1..Len(ret.enriched) :
               ret.enriched[i].speed = None \/ Value(ret.enriched[i].speed) >= 0
----------------------------------------------------------------------------
(* VideoProcessor._save_to_database: the row of a counted vehicle is       *)
(* inserted into the database, which may refuse it.                        *)

\* The columns of the vehicles table.
VehicleColumns ==
    {"id", "vehicle_type", "color", "speed", "direction", "size", "confidence",
     "bbox_x1", "bbox_y1", "bbox_x2", "bbox_y2", "detected_at"}

\* The keywords _save_to_database hands to Vehicle(...).
VehicleKeywords ==
    {"vehicle_type", "color", "speed", "direction", "size", "confidence",
     "bbox_x1", "bbox_y1", "bbox_x2", "bbox_y2",
     "license_plate", "plate_confidence"}

\* The constructor of a declarative class raises TypeError for a keyword
\* that is not an attribute of the class.
constructor_raises == VehicleKeywords \ VehicleColumns # {}

\* The try block raises: in Vehicle(...), or in db.add / db.commit.
save_raises(commit_raises) == constructor_raises \/ commit_raises

save_propagates_mut(insert_raises) == insert_raises

\* try: ... db.add(vehicle); db.commit()
\* except Exception as e: print(...); db.rollback()
\* finally: db.close()
\* The exception of the insert is handled inside _save_to_database.
save_propagates(insert_raises) == FALSE

\* The rows of the table after _save_to_database was called for each of
\* vehicle_ids: a commit adds the row, a rollback adds nothing.
saved_rows(rows, vehicle_ids, insert_raises) ==
    IF insert_raises THEN rows ELSE rows \o vehicle_ids

\* The index of the first detection of the frame for which process_frame
\* calls _save_to_database.
first_save(s, detections, frame_number) ==
    CHOOSE k \in 1..Len(detections) :
        /\ process_frame_raising(s, detections, frame_number, k).counted_now = <<>>
        /\ process_frame_raising(s, detections, frame_number, k + 1).counted_now # <<>>

\* What the database holds and was asked, kept beside the result of the
\* call: the rows committed, the vehicles whose insert raised, and the
\* vehicles _save_to_database was called for by this call.
db_log(s, attempted, insert_raises) ==
    [insert_raises |-> insert_raises,
     attempted |-> attempted,
     rows |-> saved_rows(s.ret.rows, attempted, insert_raises),
     failed |-> IF insert_raises THEN s.ret.failed \o attempted ELSE s.ret.failed]

\* process_frame when the exception leaves _save_to_database: the call
\* ends at the first save, before counted_vehicles.add.
save_raised(s, detections, frame_number, a, insert_raises) ==
    LET k == first_save(s, detections, frame_number)
        r == ws_frame_raising(s, detections, frame_number, k, "database")
    IN [r EXCEPT !.ret = r.ret @@ db_log(s, <<a.ret.counted_now[1]>>, insert_raises)]

db_frame(s, detections, frame_number, a, insert_raises) ==
    IF a.ret.counted_now # <<>> /\ save_propagates(insert_raises)
    THEN save_raised(s, detections, frame_number, a, insert_raises)
    ELSE [a EXCEPT !.ret = a.ret @@ db_log(s, a.ret.counted_now, insert_raises)]

\* One iteration of the frame loop, with the database's answer to the
\* inserts of the frame.
ws_frame_db(s, frame_skip, detections, insert_raises) ==
    db_frame(s, detections, next_frame_count(s.frame_count, frame_skip),
             ws_frame(s, frame_skip, detections), insert_raises)

\* The table is empty when the stream starts.
EmptyDb == [insert_raises |-> FALSE, attempted |-> <<>>, rows |-> <<>>, failed |-> <<>>]

InitDb ==
    \E n \in WarmFrames :
        StartsAs([WarmState[n] EXCEPT !.ret = WarmState[n].ret @@ EmptyDb])

WsFrameDb(frame_skip, detections, commit_raises) ==
    /\ steps < MaxSteps
    /\ StreamOpen
    /\ Install(ws_frame_db(State, frame_skip, detections,
                           save_raises(commit_raises)))

NextDb ==
    \E frame_skip \in FrameSkips, detections \in DetectionLists,
       commit_raises \in BOOLEAN :
        WsFrameDb(frame_skip, detections, commit_raises)

SpecDb == InitDb /\ [][NextDb]_vars

\* The ids and the history lengths the tracks of a played video can have.
LiveIds == 0..(VideoFrames \div MinAdvance)

LastSeen(vehicle_id) == Last(DictGet(tracked_vehicles, vehicle_id, <<>>)).frame_number

\* The track vehicle_id is in the store and the video has a frame left that
\* is more than stale_frames after the frame the track was last seen on.
Waiting(vehicle_id) ==
    /\ DictHas(tracked_vehicles, vehicle_id)
    /\ LastSeen(vehicle_id) + stale_frames + MinAdvance <= VideoFrames

\* The track vehicle_id is gone, or the call that just returned gave it a
\* further detection.
RemovedOrSeen(vehicle_id) ==
    \/ ~DictHas(tracked_vehicles, vehicle_id)
    \/ /\ vehicle_id \in ret.matched_ids
       /\ LastSeen(vehicle_id) = frame_count

\* No track of the store was last seen more than stale_frames before the
\* frame of the call that just returned.
NoneOverdue ==
    \A i \in 1..Len(tracked_vehicles) :
        frame_count - Last(tracked_vehicles[i].v).frame_number <= stale_frames

\* C29: while update_tracking keeps being called with strictly increasing
\* frame numbers, a track that receives no further detection is eventually
\* removed, and no track outlives the call whose frame number exceeds its
\* last-seen frame by more than 30, whatever the detection lists are.
C29_UnseenTrackEventuallyRemoved ==
    /\ [](ret.op = "process_frame" => NoneOverdue)
    /\ \A vehicle_id \in LiveIds :
           (Waiting(vehicle_id) /\ ~RemovedOrSeen(vehicle_id)) ~> RemovedOrSeen(vehicle_id)

\* A call with an empty detection list removed a track.
C29_Witness ==
    /\ ret.op = "process_frame"
    /\ ret.detections = <<>>
    /\ ret.removed # {}
    /\ ret.before # <<>>
    /\ tracked_vehicles = <<>>

====
